---- MODULE Spec2Model ----
(***************************************************************************)
(* Model of the two command-line scripts of github-issue-finder:           *)
(*   filter_and_assign.py   the Issue Filter & Reporter                    *)
(*   assign_best_issues.py  the Disabled-Assignment Notice                 *)
(* Text is modelled as a sequence of one-character strings, so that        *)
(* strip, split, lower, slicing and the `in` test are computed on the      *)
(* characters, as Python computes them.                                    *)
(***************************************************************************)
EXTENDS Integers, Sequences, FiniteSets, TLC

VARIABLES pc, result, lines, pos, good_issues, bad_issues, out, err, exit_status

vars == <<pc, result, lines, pos, good_issues, bad_issues, out, err, exit_status>>

----------------------------------------------------------------------------
(* Bounds of the model                                                     *)

\* longest table of freely chosen rows the client returns
MaxRows == 2
\* longest table of the numbered-row family (more than the 10 listed skips)
MaxLong == 12

----------------------------------------------------------------------------
(* Python text primitives                                                  *)

\* a string literal as a sequence of characters
Ch(s) == [i \in 1..Len(s) |-> SubSeq(s, i, i)]

Whitespace == {" ", "\t", "\n", "\r", "\f"}

SetMin(S) == CHOOSE m \in S : \A k \in S : m <= k

SetMax(S) == CHOOSE m \in S : \A k \in S : m >= k

\* str.strip()
Strip(s) ==
  LET keep == {i \in 1..Len(s) : s[i] \notin Whitespace}
  IN  IF keep = {} THEN <<>> ELSE SubSeq(s, SetMin(keep), SetMax(keep))

\* str.split(sep) for a one-character separator
Split(s, sep) ==
  LET at == {i \in 1..Len(s) : s[i] = sep}
      n == Cardinality(at)
      kth(k) == CHOOSE i \in at : Cardinality({j \in at : j < i}) = k - 1
  IN  [k \in 1..(n + 1) |->
         SubSeq(s, IF k = 1 THEN 1 ELSE kth(k - 1) + 1,
                   IF k = n + 1 THEN Len(s) ELSE kth(k) - 1)]

UpperCase == Ch("ABCDEFGHIJKLMNOPQRSTUVWXYZ")

LowerCase == Ch("abcdefghijklmnopqrstuvwxyz")

LowerChar(c) ==
  IF \E i \in 1..26 : UpperCase[i] = c
  THEN LowerCase[CHOOSE i \in 1..26 : UpperCase[i] = c]
  ELSE c

\* str.lower()
Lower(s) == [i \in 1..Len(s) |-> LowerChar(s[i])]

\* s[:n]
Take(s, n) == SubSeq(s, 1, IF Len(s) < n THEN Len(s) ELSE n)

\* sub in s
Contains(s, sub) ==
  \E i \in 0..(Len(s) - Len(sub)) : SubSeq(s, i + 1, i + Len(sub)) = sub

\* c * n
Repeat(c, n) == [i \in 1..n |-> c]

\* the format spec :<n  (left-justify, pad with spaces, never cut)
LJust(s, n) == IF Len(s) >= n THEN s ELSE s \o Repeat(" ", n - Len(s))

DigitChar == Ch("0123456789")

RECURSIVE Digits(_)
\* str(n) for a non-negative integer
Digits(n) ==
  IF n < 10 THEN <<DigitChar[n + 1]>>
  ELSE Digits(n \div 10) \o <<DigitChar[(n % 10) + 1]>>

----------------------------------------------------------------------------
(* Row Parser                                                              *)

\* L[2:-1]
SliceRows(L) == IF Len(L) <= 3 THEN <<>> ELSE SubSeq(L, 3, Len(L) - 1)

\* result.stdout.strip().split("\n")[2:-1]
DataLines(stdout) == SliceRows(Split(Strip(stdout), "\n"))

\* not line.strip()
IsBlank(line) == Strip(line) = <<>>

MinParts == 5

TitleCut == 50

LabelsOfRaw(parts) == IF Len(parts) > 6 THEN Strip(parts[7]) ELSE <<>>

LabelsOf(parts) ==
  LET labels_str == IF Len(parts) > 6 THEN Strip(parts[7]) ELSE <<>>
  IN  IF labels_str # <<>> THEN Lower(labels_str) ELSE <<>>

\* the fields taken from parts (Python indices 1..6 are TLA+ indices 2..7)
ParseRow(parts) ==
  [issue_id |-> Strip(parts[2]),
   title    |-> Strip(Take(parts[3], TitleCut)),
   score    |-> Strip(parts[4]),
   comments |-> Strip(parts[5]),
   category |-> IF Len(parts) > 5 THEN Strip(parts[6]) ELSE <<>>,
   labels   |-> LabelsOf(parts)]

----------------------------------------------------------------------------
(* Classifier                                                              *)

QuestionPrefix == 20

Rule1NoQuestion(title, labels) ==
  \/ Contains(labels, Ch("needs more info"))
  \/ Contains(Lower(title), Ch("help"))

Rule1(title, labels) ==
  \/ Contains(labels, Ch("needs more info"))
  \/ Contains(Lower(title), Ch("question"))
  \/ Contains(Lower(title), Ch("help"))

\* score < 0.80 with score a str: Python 3 raises TypeError for every str
StrLtFloat(score) == "TypeError"

\* comments == "0" and score < 0.80  (`and` evaluates its right side only
\* when the left side is true)
Rule2(comments, score) ==
  IF comments = Ch("0") THEN StrLtFloat(score) ELSE "False"

Rule3(title) == Contains(Take(Lower(title), QuestionPrefix), Ch("question"))

Classify(rec) ==
  IF Rule1(rec.title, rec.labels)
  THEN [raised |-> FALSE, is_bad |-> TRUE, reason |-> "Needs more info"]
  ELSE IF Rule2(rec.comments, rec.score) = "TypeError"
  THEN [raised |-> TRUE, is_bad |-> FALSE, reason |-> ""]
  ELSE IF Rule2(rec.comments, rec.score) = "True"
  THEN [raised |-> FALSE, is_bad |-> TRUE, reason |-> "Low score, no activity"]
  ELSE IF Rule3(rec.title)
  THEN [raised |-> FALSE, is_bad |-> TRUE, reason |-> "Likely a question"]
  ELSE [raised |-> FALSE, is_bad |-> FALSE, reason |-> ""]

----------------------------------------------------------------------------
(* Reporter                                                                *)

Banner ==
  << Repeat("=", 80),
     Ch("HIGH-SCORING ISSUES FOR POTENTIAL CONTRIBUTION"),
     Repeat("=", 80),
     <<>> >>

HeaderRow ==
  << LJust(Ch("ISSUE"), 50) \o Ch(" ") \o LJust(Ch("SCORE"), 8) \o Ch(" ")
       \o LJust(Ch("COMMENTS"), 10) \o Ch(" ") \o LJust(Ch("CATEGORY"), 15)
       \o Ch(" ") \o LJust(Ch("LABELS"), 40),
     Repeat("-", 80) >>

\* the table line of a good record (issue_id, score, comments, category)
FormatRow(g) ==
  LJust(g[1], 50) \o Ch(" ") \o LJust(g[2], 8) \o Ch(" ")
    \o LJust(g[3], 10) \o Ch(" ") \o LJust(g[4], 15)

PrependGood(list, g) == <<g>> \o list

AppendGood(list, g) == Append(list, g)

SummaryBlock(good, bad) ==
  << <<>>,
     Repeat("=", 80),
     Ch("GOOD ISSUES FOR CONTRIBUTION: ") \o Digits(Len(good)),
     Ch("SKIP THESE ISSUES: ") \o Digits(Len(bad)),
     Repeat("=", 80),
     <<>> >>

SkipLimit == 10

SkipSliceAll(bad) == bad

\* bad_issues[:10]
SkipSlice(bad) == Take(bad, SkipLimit)

\* the line of a skipped record (issue_id, score, reason)
FormatSkip(b) ==
  Ch("  - ") \o b[1] \o Ch(" (score: ") \o b[2] \o Ch("): ") \o Ch(b[3])

SkipBlock(bad) ==
  << Ch("ISSUES TO SKIP (bad for contribution):") >>
    \o [i \in 1..Len(SkipSlice(bad)) |-> FormatSkip(SkipSlice(bad)[i])]

RecommendedActions ==
  << <<>>,
     Ch("RECOMMENDED ACTIONS:"),
     Ch("1. Only comment on GOOD issues"),
     Ch("2. Skip issues with 'needs more info' label"),
     Ch("3. Focus on issues with clear bug/feature descriptions"),
     Ch("4. Prefer issues with some comments (indicates activity)") >>

\* the script runs off its end: status 0, result.returncode is never read
ExitStatusPropagated(returncode) == returncode

ExitStatus(returncode) == 0

\* an uncaught exception: traceback on the error stream, status 1
Traceback ==
  << "Traceback (most recent call last):",
     "TypeError: '<' not supported between instances of 'str' and 'float'" >>

UncaughtStatus == 1

----------------------------------------------------------------------------
(* Disabled-Assignment Notice                                              *)

\* textwrap.dedent(...).strip() + "\n"
NoticeMessage ==
  << "Issue auto-assignment has been disabled to protect upstream projects and",
     "credentials. Replace this script with an audited workflow that requires",
     "human confirmation before reassigning issues." >>

MainReturnZero == 1 - 1

MainReturn == 1

----------------------------------------------------------------------------
(* What the client process can print                                       *)

RECURSIVE JoinLines(_)
\* every line followed by a newline
JoinLines(L) ==
  IF L = <<>> THEN <<>> ELSE Head(L) \o <<"\n">> \o JoinLines(Tail(L))

TableHeader ==
  << Ch(" issue_id | issue_title | score | comments | project_name | category | labels"),
     Ch("----------+-------------+-------+----------+--------------+----------+--------") >>

TableFooter(n) ==
  << Ch("(") \o Digits(n) \o Ch(IF n = 1 THEN " row)" ELSE " rows)"), <<>> >>

\* psql's aligned output: column names, rule, rows, row count, blank line
Table(rows) == JoinLines(TableHeader \o rows \o TableFooter(Len(rows)))

\* rows laid out so that the fields sit at the indices the parser reads
RowSet ==
  { Ch(" | 11 | Fix crash on start | 0.90 | 0 | core | Bug, Needs More Info"),
    Ch(" | 13 | Question about the API | 0.95 | 3 | docs | docs"),
    Ch(" | 14 | Fix null pointer in parser | 0.76 | 0 | core | bug"),
    Ch(" | 15 | Add retry logic to client | 0.85 | 0 | net | bug"),
    Ch(" | 16 | Add retry logic to client | 0.85 | 3 | net | bug,good-first-issue"),
    Ch(" | 17 | Speed up the indexer | 0.78 | 2 | perf"),
    Ch(" | 18 | Tidy the build | 0.81 | 1"),
    Ch(" | 19 | Refactor the configuration loader used by the plugin API (help wanted) | 0.88 | 4 | core | cleanup"),
    Ch(" 20 | bad | row"),
    Ch("   "),
    Ch(" 101 | Fix race in cache | 0.85 | 3 | kube | bug | kind/bug") }

RECURSIVE SeqsUpTo(_, _)
\* the sequences over S of length at most n
SeqsUpTo(S, n) ==
  IF n = 0 THEN {<<>>}
  ELSE LET shorter == SeqsUpTo(S, n - 1)
       IN  shorter \cup {Append(q, x) : q \in shorter, x \in S}

\* row i of the numbered family: a blank line first, then rows that are
\* skipped (a "help" title) unless m divides i; the good rows have no labels
NumberedRow(i, m) ==
  IF i = 1 THEN Ch("   ")
  ELSE Ch(" | ") \o Digits(i) \o Ch(" | ")
         \o Ch(IF i % m = 0 THEN "Speed up the indexer | 0.78 | 2 | perf"
                            ELSE "HELP needed with build | 0.90 | 5 | build | bug")

NumberedTable(n, m) == Table([i \in 1..n |-> NumberedRow(i, m)])

StdoutSet ==
  {<<>>, Ch("\n"), Ch("psql: error\n")}
    \cup {Table(rows) : rows \in SeqsUpTo(RowSet, MaxRows)}
    \cup {NumberedTable(n, m) : n \in (MaxLong - 2)..MaxLong, m \in {2, MaxLong + 2}}

\* the client's exit status: 0 with a table, any status with anything else
ReturnCodes(stdout) ==
  IF Contains(stdout, Ch("issue_id")) THEN {0} ELSE {0, 1, 125}

----------------------------------------------------------------------------
(* The state machine                                                       *)

NotRun == [stdout |-> <<>>, returncode |-> -1]

Init ==
  /\ pc = "idle"
  /\ result = NotRun
  /\ lines = <<>>
  /\ pos = 0
  /\ good_issues = <<>>
  /\ bad_issues = <<>>
  /\ out = <<>>
  /\ err = <<>>
  /\ exit_status = -1

\* filter_and_assign.py: subprocess.run(...) and the banner
RunQuery ==
  /\ pc = "idle"
  /\ \E so \in StdoutSet : \E rc \in ReturnCodes(so) :
       result' = [stdout |-> so, returncode |-> rc]
  /\ out' = out \o Banner
  /\ pc' = "parse"
  /\ UNCHANGED <<lines, pos, good_issues, bad_issues, err, exit_status>>

\* lines = ...[2:-1], the header row, the two empty lists
ParseOutput ==
  /\ pc = "parse"
  /\ lines' = DataLines(result.stdout)
  /\ out' = out \o HeaderRow
  /\ good_issues' = <<>>
  /\ bad_issues' = <<>>
  /\ pos' = 0
  /\ pc' = "loop"
  /\ UNCHANGED <<result, err, exit_status>>

\* one iteration of `for line in lines`
LoopStep ==
  /\ pc = "loop"
  /\ pos < Len(lines)
  /\ pos' = pos + 1
  /\ LET line == lines[pos + 1]
         parts == Split(line, "|")
     IN  IF IsBlank(line) \/ Len(parts) < MinParts
         THEN UNCHANGED <<pc, good_issues, bad_issues, out, err, exit_status>>
         ELSE LET rec == ParseRow(parts)
                  verdict == Classify(rec)
                  g == <<rec.issue_id, rec.score, rec.comments, rec.category>>
              IN  IF verdict.raised
                  THEN /\ pc' = "crashed"
                       /\ err' = Append(err, Traceback)
                       /\ exit_status' = UncaughtStatus
                       /\ UNCHANGED <<good_issues, bad_issues, out>>
                  ELSE IF verdict.is_bad
                  THEN /\ bad_issues' =
                            Append(bad_issues,
                                   <<rec.issue_id, rec.score, verdict.reason>>)
                       /\ UNCHANGED <<pc, good_issues, out, err, exit_status>>
                  ELSE /\ good_issues' = AppendGood(good_issues, g)
                       /\ out' = Append(out, FormatRow(g))
                       /\ UNCHANGED <<pc, bad_issues, err, exit_status>>
  /\ UNCHANGED <<result, lines>>

\* the loop is exhausted: the counts
Summary ==
  /\ pc = "loop"
  /\ pos = Len(lines)
  /\ out' = out \o SummaryBlock(good_issues, bad_issues)
  /\ pc' = "skips"
  /\ UNCHANGED <<result, lines, pos, good_issues, bad_issues, err, exit_status>>

\* the list of skipped records
SkipSummary ==
  /\ pc = "skips"
  /\ out' = out \o SkipBlock(bad_issues)
  /\ pc' = "actions"
  /\ UNCHANGED <<result, lines, pos, good_issues, bad_issues, err, exit_status>>

\* the recommended actions and the end of the script
Recommend ==
  /\ pc = "actions"
  /\ out' = out \o RecommendedActions
  /\ exit_status' = ExitStatus(result.returncode)
  /\ pc' = "done"
  /\ UNCHANGED <<result, lines, pos, good_issues, bad_issues, err>>

\* assign_best_issues.py: sys.exit(main())
NoticeMain ==
  /\ pc = "idle"
  /\ err' = Append(err, NoticeMessage)
  /\ exit_status' = MainReturn
  /\ pc' = "exited"
  /\ UNCHANGED <<result, lines, pos, good_issues, bad_issues, out>>

Next ==
  \/ RunQuery
  \/ ParseOutput
  \/ LoopStep
  \/ Summary
  \/ SkipSummary
  \/ Recommend
  \/ NoticeMain

Spec == Init /\ [][Next]_vars

----------------------------------------------------------------------------
(* Vocabulary of the properties                                            *)

Range(s) == {s[i] : i \in DOMAIN s}

\* the line yields a record: it is not blank and has at least 5 fields
Parsed(line) == ~IsBlank(line) /\ Len(Split(line, "|")) >= MinParts

RecOf(line) == ParseRow(Split(line, "|"))

GoodEntry(rec) == <<rec.issue_id, rec.score, rec.comments, rec.category>>

SkipEntry(rec, reason) == <<rec.issue_id, rec.score, reason>>

\* the run died with an uncaught exception while handling line i
CrashedAt(i) == pc = "crashed" /\ i = pos

DigitVal(c) == (CHOOSE d \in 1..10 : DigitChar[d] = c) - 1

IsScoreText(s) ==
  /\ Len(s) = 4
  /\ s[2] = "."
  /\ \A k \in {1, 3, 4} : s[k] \in Range(DigitChar)

\* the number a score text such as 0.76 denotes, in hundredths
ScoreHundredths(s) == 100 * DigitVal(s[1]) + 10 * DigitVal(s[3]) + DigitVal(s[4])

ScoreBelow080(s) == IsScoreText(s) /\ ScoreHundredths(s) < 80

\* the k-th smallest element of a set of integers, as a sequence
Sorted(S) ==
  [k \in 1..Cardinality(S) |->
     CHOOSE i \in S : Cardinality({j \in S : j < i}) = k - 1]

Started == pc \in {"loop", "crashed", "skips", "actions", "done"}

----------------------------------------------------------------------------
(* C1: a parsed record that rule 1 does not match, with comment count "0"  *)
(* and a score below 0.80, is put in the skip list with reason "Low score, *)
(* no activity" and the run goes on.                                       *)
C1_LowScoreSkipped ==
  \A i \in 1..pos :
    LET rec == RecOf(lines[i])
    IN  (/\ Parsed(lines[i])
         /\ ~Rule1(rec.title, rec.labels)
         /\ rec.comments = Ch("0")
         /\ ScoreBelow080(rec.score))
        => /\ ~CrashedAt(i)
           /\ SkipEntry(rec, "Low score, no activity") \in Range(bad_issues)

(* C2: a parsed record that matches none of rules 1-3 is good: it is in    *)
(* the good list, printed as a table line, and the run goes on.            *)
C2_UnmatchedIsGood ==
  \A i \in 1..pos :
    LET rec == RecOf(lines[i])
    IN  (/\ Parsed(lines[i])
         /\ ~Rule1(rec.title, rec.labels)
         /\ ~(rec.comments = Ch("0") /\ ScoreBelow080(rec.score))
         /\ ~Rule3(rec.title))
        => /\ ~CrashedAt(i)
           /\ GoodEntry(rec) \in Range(good_issues)
           /\ FormatRow(GoodEntry(rec)) \in Range(out)
           /\ \A b \in Range(bad_issues) : b[1] # rec.issue_id

\* the labels field as written, before lower-casing
RawLabels(line) ==
  LET parts == Split(line, "|")
  IN  IF Len(parts) > 6 THEN Strip(parts[7]) ELSE <<>>

\* the case of rule 1, stated on the text of the line
NeedsInfoCase(line) ==
  \/ Contains(Lower(RawLabels(line)), Ch("needs more info"))
  \/ Contains(Lower(RecOf(line).title), Ch("question"))
  \/ Contains(Lower(RecOf(line).title), Ch("help"))

(* C3: a record whose labels contain "needs more info" or whose title      *)
(* contains "question" or "help", in any letter case, is skipped with      *)
(* reason "Needs more info" whatever its score and comment count.          *)
C3_Rule1Wins ==
  [][ (/\ pc = "loop"
       /\ pos < Len(lines)
       /\ Parsed(lines[pos + 1])
       /\ NeedsInfoCase(lines[pos + 1]))
      => (/\ bad_issues' =
               Append(bad_issues, SkipEntry(RecOf(lines[pos + 1]), "Needs more info"))
          /\ good_issues' = good_issues
          /\ out' = out
          /\ pc' = "loop"
          /\ pos' = pos + 1) ]_vars

\* an upper-case "Needs More Info" label on a record with no comments has
\* been skipped by rule 1
C3_Witness ==
  \E i \in 1..pos :
    /\ Parsed(lines[i])
    /\ RawLabels(lines[i]) # Lower(RawLabels(lines[i]))
    /\ Contains(Lower(RawLabels(lines[i])), Ch("needs more info"))
    /\ RecOf(lines[i]).comments = Ch("0")
    /\ SkipEntry(RecOf(lines[i]), "Needs more info") \in Range(bad_issues)
    /\ pc = "done"

(* C4: len(good) + len(skip) is the number of lines seen so far that are   *)
(* not blank and have at least 5 fields.                                   *)
C4_CountsAddUp ==
  Started =>
    Len(good_issues) + Len(bad_issues)
      = Cardinality({i \in 1..pos : Parsed(lines[i])})

\* the lines seen so far that the classifier marked good
GoodLines ==
  Sorted({i \in 1..pos :
            /\ Parsed(lines[i])
            /\ ~Classify(RecOf(lines[i])).raised
            /\ ~Classify(RecOf(lines[i])).is_bad})

\* the lines seen so far that the classifier marked skip
SkipLines ==
  Sorted({i \in 1..pos :
            /\ Parsed(lines[i])
            /\ Classify(RecOf(lines[i])).is_bad})

\* the output before the first table line: banner and header row
TableStart == Len(Banner) + Len(HeaderRow)

(* C5: the good list and the printed table lines hold the good records in  *)
(* the order of their lines, each exactly once.                            *)
C5_GoodInInputOrder ==
  Started =>
    LET from == GoodLines
    IN  /\ good_issues =
             [j \in 1..Len(from) |-> GoodEntry(RecOf(lines[from[j]]))]
        /\ Len(out) >= TableStart + Len(from)
        /\ SubSeq(out, TableStart + 1, TableStart + Len(from)) =
             [j \in 1..Len(from) |-> FormatRow(GoodEntry(RecOf(lines[from[j]])))]
        /\ pc \in {"loop", "crashed"} => Len(out) = TableStart + Len(from)

\* two different good records, with a skipped line before the second
C5_Witness ==
  /\ pc = "done"
  /\ Len(good_issues) >= 2
  /\ good_issues[1] # good_issues[2]
  /\ Len(bad_issues) >= 1

\* the output before the skip listing
SkipStart == TableStart + Len(good_issues) + Len(SummaryBlock(good_issues, bad_issues))

Shown == IF Len(bad_issues) < 10 THEN Len(bad_issues) ELSE 10

(* C6: the skip summary lists the first min(10, skipped) skipped records   *)
(* in the order met, each with id, score and reason; the skip count        *)
(* reports all of them.                                                    *)
C6_SkipSummaryCapped ==
  pc \in {"actions", "done"} =>
    /\ LET from == SkipLines
       IN  bad_issues =
             [j \in 1..Len(from) |->
                SkipEntry(RecOf(lines[from[j]]), Classify(RecOf(lines[from[j]])).reason)]
    /\ out[SkipStart - 2] = Ch("SKIP THESE ISSUES: ") \o Digits(Len(bad_issues))
    /\ out[SkipStart + 1] = Ch("ISSUES TO SKIP (bad for contribution):")
    /\ SubSeq(out, SkipStart + 2, SkipStart + 1 + Shown) =
         [j \in 1..Shown |->
            Ch("  - ") \o bad_issues[j][1] \o Ch(" (score: ") \o bad_issues[j][2]
              \o Ch("): ") \o Ch(bad_issues[j][3])]
    /\ Len(out) = SkipStart + 1 + Shown
                    + (IF pc = "done" THEN Len(RecommendedActions) ELSE 0)

\* more than 10 records were skipped and the report is complete
C6_Witness == pc = "done" /\ Len(bad_issues) > 10

(* C7: the notice script writes the fixed warning to the error stream once *)
(* and ends with status 1; it prints nothing, runs nothing, never exits 0. *)
C7_NoticeExitsOne ==
  /\ pc = "exited" =>
       /\ err = <<NoticeMessage>>
       /\ exit_status = 1
       /\ out = <<>>
       /\ result = NotRun
       /\ lines = <<>> /\ good_issues = <<>> /\ bad_issues = <<>>
  /\ (pc # "exited" /\ err # <<>>) => pc = "crashed"

C7_Witness == pc = "exited" /\ Len(err) = 1

\* a line of the fixed query's table: the seven column values, the first of
\* them the issue id
IsQueryRow(line) ==
  /\ ~IsBlank(line)
  /\ Len(Split(line, "|")) = 7
  /\ Strip(Split(line, "|")[1]) # <<>>

Column(line, k) == Strip(Split(line, "|")[k])

(* C8: from a data line with the seven columns issue_id, issue_title,      *)
(* score, comments, project_name, category, labels the parser builds the   *)
(* record with that id, title (cut to 50, trimmed), score, comment count,  *)
(* category and lower-cased labels; the first two lines and the last line  *)
(* of the output give no record.                                           *)
C8_RecordFromColumns ==
  Started =>
    /\ lines = LET all == Split(Strip(result.stdout), "\n")
               IN  [k \in 1..(IF Len(all) > 3 THEN Len(all) - 3 ELSE 0) |-> all[k + 2]]
    /\ \A i \in 1..pos :
         IsQueryRow(lines[i]) =>
           /\ RecOf(lines[i]).issue_id = Column(lines[i], 1)
           /\ RecOf(lines[i]).title = Strip(Take(Split(lines[i], "|")[2], 50))
           /\ RecOf(lines[i]).score = Column(lines[i], 3)
           /\ RecOf(lines[i]).comments = Column(lines[i], 4)
           /\ RecOf(lines[i]).category = Column(lines[i], 6)
           /\ RecOf(lines[i]).labels = Lower(Column(lines[i], 7))

\* the whole report for an empty table
EmptyReport ==
  Banner \o HeaderRow
    \o << <<>>,
          Repeat("=", 80),
          Ch("GOOD ISSUES FOR CONTRIBUTION: 0"),
          Ch("SKIP THESE ISSUES: 0"),
          Repeat("=", 80),
          <<>>,
          Ch("ISSUES TO SKIP (bad for contribution):") >>
    \o RecommendedActions

ClientFailedSilently == result.returncode > 0 /\ result.stdout = <<>>

(* C9: when the client fails and its output is empty, the failure is not   *)
(* surfaced: no data line is parsed, the report shows 0 good and 0 skip    *)
(* with an empty skip list, and the script ends with status 0.             *)
C9_FailureNotSurfaced ==
  ClientFailedSilently =>
    /\ pc # "crashed"
    /\ err = <<>>
    /\ lines = <<>> /\ good_issues = <<>> /\ bad_issues = <<>>
    /\ exit_status = (IF pc = "done" THEN 0 ELSE -1)
    /\ pc = "done" => out = EmptyReport

C9_Witness == ClientFailedSilently /\ pc = "done" /\ out = EmptyReport

(* C10: no record is skipped with reason "Likely a question": the reason   *)
(* is "Needs more info" or "Low score, no activity", and a title whose     *)
(* first 20 lower-cased characters contain "question" is taken by rule 1.  *)
C10_Rule3Unreachable ==
  /\ \A b \in Range(bad_issues) :
       b[3] \in {"Needs more info", "Low score, no activity"}
  /\ \A i \in 1..pos :
       (Parsed(lines[i]) /\ Rule3(RecOf(lines[i]).title))
         => /\ ~CrashedAt(i)
            /\ SkipEntry(RecOf(lines[i]), "Needs more info") \in Range(bad_issues)

\* a title that starts with "Question", on a record rule 2 leaves alone
C10_Witness ==
  \E i \in 1..pos :
    /\ Parsed(lines[i])
    /\ Rule3(RecOf(lines[i]).title)
    /\ RecOf(lines[i]).comments # Ch("0")
    /\ SkipEntry(RecOf(lines[i]), "Needs more info") \in Range(bad_issues)

====
